---- MODULE Spec2Model ----
(***************************************************************************)
(* The per-stream state machine of src/proto/streams/state.rs: the value   *)
(* `State { inner }`, its transition operations and its queries.  Every    *)
(* operation is a pure operator from the state before the call (and the    *)
(* call's arguments) to the state after it and the value returned; the     *)
(* actions apply the operators to the one State instance a stream owns.    *)
(***************************************************************************)
EXTENDS Naturals, FiniteSets, Sequences, TLC

(* ---------------------------------------------------------------- types *)

\* frame::Reason values the callers pass in; state.rs itself names
\* PROTOCOL_ERROR (recv_* errors) and CANCEL (ensure_recv_open).
Reasons == {"PROTOCOL_ERROR", "INTERNAL_ERROR", "CANCEL"}

\* enum OpenPeer
AwaitingHeaders == "AwaitingHeaders"
Streaming == "Streaming"
OpenPeer == {AwaitingHeaders, Streaming}

\* enum Peer
Local == "Local"
Remote == "Remote"

\* enum Cause
EndStream == [kind |-> "EndStream", peer |-> "none", reason |-> "none"]
CauseProto(peer, reason) == [kind |-> "Proto", peer |-> peer, reason |-> reason]
CauseIo == [kind |-> "Io", peer |-> "none", reason |-> "none"]
Canceled == [kind |-> "Canceled", peer |-> "none", reason |-> "none"]

\* enum Inner
Idle == [tag |-> "Idle"]
ReservedRemote == [tag |-> "ReservedRemote"]
Open(local, remote) == [tag |-> "Open", local |-> local, remote |-> remote]
HalfClosedLocal(remote) == [tag |-> "HalfClosedLocal", peer |-> remote]
HalfClosedRemote(local) == [tag |-> "HalfClosedRemote", peer |-> local]
Closed(cause) == [tag |-> "Closed", cause |-> cause]

\* proto::Error, the argument of recv_err and the error of ensure_recv_open
ErrProto(reason) == [kind |-> "Proto", reason |-> reason]
ErrIo == [kind |-> "Io", reason |-> "BrokenPipe"]
ProtoErrors == {ErrProto(r) : r \in Reasons} \cup {ErrIo}

\* What a call gives back: Ok(()), Ok(bool), Err(..), or a panic.
OkUnit == [status |-> "Ok", val |-> "unit", reason |-> "none"]
OkBool(b) == [status |-> "Ok", val |-> IF b THEN "true" ELSE "false", reason |-> "none"]
ErrUser(e) == [status |-> "Err", val |-> e, reason |-> "none"]
ErrConnection(reason) == [status |-> "Err", val |-> "Connection", reason |-> reason]
ErrProtoError(e) == [status |-> "Err", val |-> e.kind, reason |-> e.reason]
Panic == [status |-> "Panic", val |-> "panic", reason |-> "none"]

\* The pair (state after the call, value returned).
Outcome(s, r) == [inner |-> s, ret |-> r]

(* -------------------------------------------------------------- queries *)

is_canceled(s) ==
    s.tag = "Closed" /\ s.cause.kind = "Canceled"

is_local_reset(s) ==
    s.tag = "Closed"
    /\ \/ (s.cause.kind = "Proto" /\ s.cause.peer = Local)
       \/ s.cause.kind = "Canceled"

is_reset(s) ==
    s.tag = "Closed" /\ s.cause.kind # "EndStream"

\* is_at_least_half_open without its HalfClosedLocal(..) arm.
is_at_least_half_open_no_local(s) ==
    s.tag \in {"Open", "HalfClosedRemote"}

is_at_least_half_open(s) ==
    s.tag \in {"Open", "HalfClosedLocal", "HalfClosedRemote"}

\* is_send_streaming that reads the status carried by either half-closed shape.
is_send_streaming_either_half(s) ==
    \/ (s.tag = "Open" /\ s.local = Streaming)
    \/ (s.tag \in {"HalfClosedLocal", "HalfClosedRemote"} /\ s.peer = Streaming)

is_send_streaming(s) ==
    \/ (s.tag = "Open" /\ s.local = Streaming)
    \/ (s.tag = "HalfClosedRemote" /\ s.peer = Streaming)

\* is_recv_headers without its ReservedRemote arm.
is_recv_headers_not_reserved(s) ==
    \/ s.tag = "Idle"
    \/ (s.tag = "Open" /\ s.remote = AwaitingHeaders)
    \/ (s.tag = "HalfClosedLocal" /\ s.peer = AwaitingHeaders)

is_recv_headers(s) ==
    \/ s.tag = "Idle"
    \/ (s.tag = "Open" /\ s.remote = AwaitingHeaders)
    \/ (s.tag = "HalfClosedLocal" /\ s.peer = AwaitingHeaders)
    \/ s.tag = "ReservedRemote"

is_recv_streaming(s) ==
    \/ (s.tag = "Open" /\ s.remote = Streaming)
    \/ (s.tag = "HalfClosedLocal" /\ s.peer = Streaming)

is_closed(s) == s.tag = "Closed"

is_recv_closed(s) == s.tag \in {"Closed", "HalfClosedRemote"}

is_idle(s) == s.tag = "Idle"

\* ensure_recv_open without the `| HalfClosedRemote(..)` alternative.
ensure_recv_open_half_closed_true(s) ==
    IF s.tag = "Closed" /\ s.cause.kind = "Proto"
        THEN ErrProtoError(ErrProto(s.cause.reason))
    ELSE IF s.tag = "Closed" /\ s.cause.kind = "Canceled"
        THEN ErrProtoError(ErrProto("CANCEL"))
    ELSE IF s.tag = "Closed" /\ s.cause.kind = "Io"
        THEN ErrProtoError(ErrIo)
    ELSE IF s.tag = "Closed" /\ s.cause.kind = "EndStream"
        THEN OkBool(FALSE)
    ELSE OkBool(TRUE)

ensure_recv_open(s) ==
    IF s.tag = "Closed" /\ s.cause.kind = "Proto"
        THEN ErrProtoError(ErrProto(s.cause.reason))
    ELSE IF s.tag = "Closed" /\ s.cause.kind = "Canceled"
        THEN ErrProtoError(ErrProto("CANCEL"))
    ELSE IF s.tag = "Closed" /\ s.cause.kind = "Io"
        THEN ErrProtoError(ErrIo)
    ELSE IF (s.tag = "Closed" /\ s.cause.kind = "EndStream") \/ s.tag = "HalfClosedRemote"
        THEN OkBool(FALSE)
    ELSE OkBool(TRUE)

(* ---------------------------------------------------------- transitions *)

\* send_open whose Open arm forgets the remote status it matched.
send_open_resets_remote(s, eos) ==
    IF s.tag = "Idle" THEN
        Outcome(IF eos THEN HalfClosedLocal(AwaitingHeaders)
                       ELSE Open(Streaming, AwaitingHeaders), OkUnit)
    ELSE IF s.tag = "Open" /\ s.local = AwaitingHeaders THEN
        Outcome(IF eos THEN HalfClosedLocal(AwaitingHeaders)
                       ELSE Open(Streaming, AwaitingHeaders), OkUnit)
    ELSE IF s.tag = "HalfClosedRemote" /\ s.peer = AwaitingHeaders THEN
        Outcome(IF eos THEN Closed(EndStream)
                       ELSE HalfClosedRemote(Streaming), OkUnit)
    ELSE Outcome(s, ErrUser("UnexpectedFrameType"))

send_open(s, eos) ==
    IF s.tag = "Idle" THEN
        Outcome(IF eos THEN HalfClosedLocal(AwaitingHeaders)
                       ELSE Open(Streaming, AwaitingHeaders), OkUnit)
    ELSE IF s.tag = "Open" /\ s.local = AwaitingHeaders THEN
        Outcome(IF eos THEN HalfClosedLocal(s.remote)
                       ELSE Open(Streaming, s.remote), OkUnit)
    ELSE IF s.tag = "HalfClosedRemote" /\ s.peer = AwaitingHeaders THEN
        Outcome(IF eos THEN Closed(EndStream)
                       ELSE HalfClosedRemote(Streaming), OkUnit)
    ELSE Outcome(s, ErrUser("UnexpectedFrameType"))

\* recv_open whose Idle arm opens the local side as Streaming too.
recv_open_opens_both(s, eos) ==
    IF s.tag = "Idle" THEN
        Outcome(IF eos THEN HalfClosedRemote(Streaming)
                       ELSE Open(Streaming, Streaming), OkBool(TRUE))
    ELSE IF s.tag = "ReservedRemote" THEN
        Outcome(IF eos THEN Closed(EndStream)
                       ELSE Open(AwaitingHeaders, Streaming), OkBool(TRUE))
    ELSE IF s.tag = "Open" /\ s.remote = AwaitingHeaders THEN
        Outcome(IF eos THEN HalfClosedRemote(s.local)
                       ELSE Open(s.local, Streaming), OkBool(FALSE))
    ELSE IF s.tag = "HalfClosedLocal" /\ s.peer = AwaitingHeaders THEN
        Outcome(IF eos THEN Closed(EndStream)
                       ELSE HalfClosedLocal(Streaming), OkBool(FALSE))
    ELSE Outcome(s, ErrConnection("PROTOCOL_ERROR"))

\* recv_open whose ReservedRemote arm does not set `initial`.
recv_open_reserved_not_initial(s, eos) ==
    IF s.tag = "Idle" THEN
        Outcome(IF eos THEN HalfClosedRemote(AwaitingHeaders)
                       ELSE Open(AwaitingHeaders, Streaming), OkBool(TRUE))
    ELSE IF s.tag = "ReservedRemote" THEN
        Outcome(IF eos THEN Closed(EndStream)
                       ELSE Open(AwaitingHeaders, Streaming), OkBool(FALSE))
    ELSE IF s.tag = "Open" /\ s.remote = AwaitingHeaders THEN
        Outcome(IF eos THEN HalfClosedRemote(s.local)
                       ELSE Open(s.local, Streaming), OkBool(FALSE))
    ELSE IF s.tag = "HalfClosedLocal" /\ s.peer = AwaitingHeaders THEN
        Outcome(IF eos THEN Closed(EndStream)
                       ELSE HalfClosedLocal(Streaming), OkBool(FALSE))
    ELSE Outcome(s, ErrConnection("PROTOCOL_ERROR"))

recv_open(s, eos) ==
    IF s.tag = "Idle" THEN
        Outcome(IF eos THEN HalfClosedRemote(AwaitingHeaders)
                       ELSE Open(AwaitingHeaders, Streaming), OkBool(TRUE))
    ELSE IF s.tag = "ReservedRemote" THEN
        Outcome(IF eos THEN Closed(EndStream)
                       ELSE Open(AwaitingHeaders, Streaming), OkBool(TRUE))
    ELSE IF s.tag = "Open" /\ s.remote = AwaitingHeaders THEN
        Outcome(IF eos THEN HalfClosedRemote(s.local)
                       ELSE Open(s.local, Streaming), OkBool(FALSE))
    ELSE IF s.tag = "HalfClosedLocal" /\ s.peer = AwaitingHeaders THEN
        Outcome(IF eos THEN Closed(EndStream)
                       ELSE HalfClosedLocal(Streaming), OkBool(FALSE))
    ELSE Outcome(s, ErrConnection("PROTOCOL_ERROR"))

\* reserve_remote that accepts a stream already reserved.
reserve_remote_again(s) ==
    IF s.tag \in {"Idle", "ReservedRemote"} THEN Outcome(ReservedRemote, OkUnit)
    ELSE Outcome(s, ErrConnection("PROTOCOL_ERROR"))

reserve_remote(s) ==
    IF s.tag = "Idle" THEN Outcome(ReservedRemote, OkUnit)
    ELSE Outcome(s, ErrConnection("PROTOCOL_ERROR"))

\* recv_close that takes either half-closed shape to Closed.
recv_close_accepts_half_closed_remote(s) ==
    IF s.tag = "Open" THEN Outcome(HalfClosedRemote(s.local), OkUnit)
    ELSE IF s.tag \in {"HalfClosedLocal", "HalfClosedRemote"}
        THEN Outcome(Closed(EndStream), OkUnit)
    ELSE Outcome(s, ErrConnection("PROTOCOL_ERROR"))

\* recv_close that records the protocol error it returns as the stream's cause.
recv_close_closes_on_error(s) ==
    IF s.tag = "Open" THEN Outcome(HalfClosedRemote(s.local), OkUnit)
    ELSE IF s.tag = "HalfClosedLocal" THEN Outcome(Closed(EndStream), OkUnit)
    ELSE Outcome(Closed(CauseProto(Local, "PROTOCOL_ERROR")),
                 ErrConnection("PROTOCOL_ERROR"))

\* recv_close with send_close's panicking fallback arm.
recv_close_panics(s) ==
    IF s.tag = "Open" THEN Outcome(HalfClosedRemote(s.local), OkUnit)
    ELSE IF s.tag = "HalfClosedLocal" THEN Outcome(Closed(EndStream), OkUnit)
    ELSE Outcome(s, Panic)

recv_close(s) ==
    IF s.tag = "Open" THEN Outcome(HalfClosedRemote(s.local), OkUnit)
    ELSE IF s.tag = "HalfClosedLocal" THEN Outcome(Closed(EndStream), OkUnit)
    ELSE Outcome(s, ErrConnection("PROTOCOL_ERROR"))

\* recv_reset without its Closed(..) => {} arm.
recv_reset_overwrites(s, reason) ==
    Outcome(Closed(CauseProto(Remote, reason)), OkUnit)

recv_reset(s, reason) ==
    IF s.tag = "Closed" THEN Outcome(s, OkUnit)
    ELSE Outcome(Closed(CauseProto(Remote, reason)), OkUnit)

\* recv_err without its Closed(..) => {} arm.
recv_err_overwrites(s, err) ==
    Outcome(Closed(IF err.kind = "Proto" THEN CauseProto(Local, err.reason)
                                         ELSE CauseIo), OkUnit)

recv_err(s, err) ==
    IF s.tag = "Closed" THEN Outcome(s, OkUnit)
    ELSE Outcome(Closed(IF err.kind = "Proto" THEN CauseProto(Local, err.reason)
                                              ELSE CauseIo), OkUnit)

\* send_close that insists on a local status of Streaming.
send_close_requires_streaming(s) ==
    IF s.tag = "Open" /\ s.local = Streaming THEN Outcome(HalfClosedLocal(s.remote), OkUnit)
    ELSE IF s.tag = "HalfClosedRemote" /\ s.peer = Streaming
        THEN Outcome(Closed(EndStream), OkUnit)
    ELSE Outcome(s, Panic)

\* send_close that closes the stream outright from Open.
send_close_closes_both(s) ==
    IF s.tag \in {"Open", "HalfClosedRemote"} THEN Outcome(Closed(EndStream), OkUnit)
    ELSE Outcome(s, Panic)

\* send_close whose HalfClosedRemote arm records a local reset instead of
\* the end of the stream.
send_close_resets(s) ==
    IF s.tag = "Open" THEN Outcome(HalfClosedLocal(s.remote), OkUnit)
    ELSE IF s.tag = "HalfClosedRemote"
        THEN Outcome(Closed(CauseProto(Local, "CANCEL")), OkUnit)
    ELSE Outcome(s, Panic)

send_close(s) ==
    IF s.tag = "Open" THEN Outcome(HalfClosedLocal(s.remote), OkUnit)
    ELSE IF s.tag = "HalfClosedRemote" THEN Outcome(Closed(EndStream), OkUnit)
    ELSE Outcome(s, Panic)

\* set_reset with the Closed(..) => {} arm of recv_reset.
set_reset_keeps_closed(s, reason) ==
    IF s.tag = "Closed" THEN Outcome(s, OkUnit)
    ELSE Outcome(Closed(CauseProto(Local, reason)), OkUnit)

set_reset(s, reason) ==
    Outcome(Closed(CauseProto(Local, reason)), OkUnit)

\* debug_assert!(!self.is_closed()) is compiled in only when the build has
\* debug assertions; `dbg` is that build setting.
set_canceled(s, dbg) ==
    IF dbg /\ is_closed(s) THEN Outcome(s, Panic)
    ELSE Outcome(Closed(Canceled), OkUnit)

(* ---------------------------------------------------------------- state *)

VARIABLES
    inner,              \* State.inner
    debug_assertions,   \* whether the build compiles debug_assert! in
    panicked,           \* a call has panicked: the owner is unwinding
    last,               \* the latest call: operation, arguments, state before, result
    prev,               \* the call before it
    localEos,           \* a send_open(true) or send_close has succeeded
    remoteEos,          \* a recv_open(true) or recv_close has succeeded
    reserved,           \* a reserve_remote has succeeded
    sentOpen,           \* a send_open has succeeded
    recvdOpen,          \* a recv_open has succeeded
    progress            \* how many send_open, recv_open, reserve_remote, recv_close
                        \* and send_close calls have succeeded

vars == <<inner, debug_assertions, panicked, last, prev, localEos, remoteEos, reserved,
          sentOpen, recvdOpen, progress>>

\* The operations that advance a stream through its lifecycle.
ProgressOps == {"send_open", "recv_open", "reserve_remote", "recv_close", "send_close"}

NoErr == [kind |-> "none", reason |-> "none"]
NoCall == [op |-> "none", eos |-> FALSE, reason |-> "none", err |-> NoErr,
           before |-> Idle, ret |-> OkUnit]
Call(op, eos, reason, err, before, ret) ==
    [op |-> op, eos |-> eos, reason |-> reason, err |-> err, before |-> before, ret |-> ret]

\* impl Default for State
Init ==
    /\ inner = Idle
    /\ debug_assertions \in BOOLEAN
    /\ panicked = FALSE
    /\ last = NoCall
    /\ prev = NoCall
    /\ localEos = FALSE
    /\ remoteEos = FALSE
    /\ reserved = FALSE
    /\ sentOpen = FALSE
    /\ recvdOpen = FALSE
    /\ progress = 0

\* One call on the stream's State: `out` is what the operation computed.
Apply(op, eos, reason, err, out) ==
    /\ ~panicked
    /\ inner' = out.inner
    /\ panicked' = (out.ret.status = "Panic")
    /\ prev' = last
    /\ last' = Call(op, eos, reason, err, inner, out.ret)
    /\ localEos' = (localEos \/ (out.ret.status = "Ok"
                                 /\ ((op = "send_open" /\ eos) \/ op = "send_close")))
    /\ remoteEos' = (remoteEos \/ (out.ret.status = "Ok"
                                   /\ ((op = "recv_open" /\ eos) \/ op = "recv_close")))
    /\ reserved' = (reserved \/ (out.ret.status = "Ok" /\ op = "reserve_remote"))
    /\ sentOpen' = (sentOpen \/ (out.ret.status = "Ok" /\ op = "send_open"))
    /\ recvdOpen' = (recvdOpen \/ (out.ret.status = "Ok" /\ op = "recv_open"))
    /\ progress' = IF out.ret.status = "Ok" /\ op \in ProgressOps
                   THEN progress + 1 ELSE progress
    /\ UNCHANGED debug_assertions

SendOpen == \E eos \in BOOLEAN :
    Apply("send_open", eos, "none", NoErr, send_open(inner, eos))

RecvOpen == \E eos \in BOOLEAN :
    Apply("recv_open", eos, "none", NoErr, recv_open(inner, eos))

ReserveRemote ==
    Apply("reserve_remote", FALSE, "none", NoErr, reserve_remote(inner))

RecvClose ==
    Apply("recv_close", FALSE, "none", NoErr, recv_close(inner))

RecvReset == \E reason \in Reasons :
    Apply("recv_reset", FALSE, reason, NoErr, recv_reset(inner, reason))

RecvErr == \E err \in ProtoErrors :
    Apply("recv_err", FALSE, "none", err, recv_err(inner, err))

SendClose ==
    Apply("send_close", FALSE, "none", NoErr, send_close(inner))

SetReset == \E reason \in Reasons :
    Apply("set_reset", FALSE, reason, NoErr, set_reset(inner, reason))

SetCanceled ==
    Apply("set_canceled", FALSE, "none", NoErr, set_canceled(inner, debug_assertions))

EnsureRecvOpen ==
    Apply("ensure_recv_open", FALSE, "none", NoErr, Outcome(inner, ensure_recv_open(inner)))

Next ==
    \/ SendOpen
    \/ RecvOpen
    \/ ReserveRemote
    \/ RecvClose
    \/ RecvReset
    \/ RecvErr
    \/ SendClose
    \/ SetReset
    \/ SetCanceled
    \/ EnsureRecvOpen

Spec == Init /\ [][Next]_vars

(* --------------------------------------------------------------- claims *)

Called == last.op # "none"

\* C1 (as stated): once the state is Closed, no operation of any kind changes
\* it, so the first recorded cause is never overwritten.
C1_CauseNeverOverwritten == [][inner.tag = "Closed" => inner' = inner]_vars

\* C1 (amended): once the state is Closed, the only calls that change the
\* cause are set_reset and, in a build without debug assertions,
\* set_canceled; every other operation leaves the closed state as it was.
C1_CauseOverwrittenOnlyBySet ==
    [][(inner.tag = "Closed" /\ inner' # inner)
         => \/ (last'.op = "set_reset"
                /\ inner' = Closed(CauseProto(Local, last'.reason)))
            \/ (last'.op = "set_canceled" /\ ~debug_assertions
                /\ inner' = Closed(Canceled))]_vars

\* C1 witness: recv_err was called on a state already closed by the remote's reset.
C1_Witness ==
    /\ last.op = "recv_err"
    /\ last.before.tag = "Closed"
    /\ last.before.cause.kind = "Proto"
    /\ last.before.cause.peer = Remote
    /\ inner = last.before

\* The (operation, shape) pairs for which section 4 of the specification lists
\* a transition.
Listed(op, s) ==
    CASE op = "send_open" ->
            \/ s.tag = "Idle"
            \/ (s.tag = "Open" /\ s.local = AwaitingHeaders)
            \/ (s.tag = "HalfClosedRemote" /\ s.peer = AwaitingHeaders)
      [] op = "recv_open" ->
            \/ s.tag \in {"Idle", "ReservedRemote"}
            \/ (s.tag = "Open" /\ s.remote = AwaitingHeaders)
            \/ (s.tag = "HalfClosedLocal" /\ s.peer = AwaitingHeaders)
      [] op = "reserve_remote" -> s.tag = "Idle"
      [] op = "recv_close" -> s.tag \in {"Open", "HalfClosedLocal"}
      [] op = "send_close" -> s.tag \in {"Open", "HalfClosedRemote"}
      [] OTHER -> TRUE

\* C2 (as stated): every call on a shape with no listed transition returns an
\* error value, and no call ends in a panic.
C2_NoPanicAnywhere ==
    Called => /\ last.ret.status # "Panic"
              /\ (~Listed(last.op, last.before) => last.ret.status = "Err")

\* C2 (amended): send_open, recv_open, reserve_remote and recv_close return
\* an error value exactly on the shapes with no listed transition and never
\* panic; recv_reset, recv_err, set_reset and ensure_recv_open never panic;
\* send_close panics exactly on the shapes other than Open and
\* HalfClosedRemote; set_canceled panics exactly on Closed in a build with
\* debug assertions.
C2_TotalExceptSendClose ==
    Called =>
      /\ last.op \in {"send_open", "recv_open", "reserve_remote", "recv_close"}
           => last.ret.status = IF Listed(last.op, last.before) THEN "Ok" ELSE "Err"
      /\ last.op \in {"recv_reset", "recv_err", "set_reset", "ensure_recv_open"}
           => last.ret.status # "Panic"
      /\ last.op = "send_close"
           => last.ret.status = IF Listed(last.op, last.before) THEN "Ok" ELSE "Panic"
      /\ last.op = "set_canceled"
           => last.ret.status = IF debug_assertions /\ last.before.tag = "Closed"
                                THEN "Panic" ELSE "Ok"

\* C2 witness: recv_close was rejected with an error on Idle and the
\* send_close that followed panicked.
C2_Witness ==
    /\ prev.op = "recv_close" /\ prev.before = Idle /\ prev.ret.status = "Err"
    /\ last.op = "send_close" /\ last.before = Idle /\ last.ret = Panic

\* C3 (as stated): send_open(true) on Idle succeeds and leaves a state with
\* is_at_least_half_open() false and is_recv_headers() true.
C3_SendOpenEosNotHalfOpen ==
    (last.op = "send_open" /\ last.eos /\ last.before = Idle)
      => /\ last.ret = OkUnit
         /\ ~is_at_least_half_open(inner)
         /\ is_recv_headers(inner)

\* C3 (amended): send_open(true) on Idle succeeds and leaves
\* HalfClosedLocal(AwaitingHeaders), for which is_at_least_half_open() is true
\* and is_recv_headers() is true.
C3_SendOpenEosHalfOpen ==
    (last.op = "send_open" /\ last.eos /\ last.before = Idle)
      => /\ last.ret = OkUnit
         /\ inner = HalfClosedLocal(AwaitingHeaders)
         /\ is_at_least_half_open(inner)
         /\ is_recv_headers(inner)

\* C3 witness: the first call on the stream was send_open(true).
C3_Witness ==
    last.op = "send_open" /\ last.eos /\ last.before = Idle /\ prev.op = "none"

\* C4 (as stated): the state is Closed(EndStream) only if a local
\* end-of-stream event (successful send_open(true) or send_close) and a remote
\* one (successful recv_open(true) or recv_close) have both occurred.
C4_EndStreamBothEnded ==
    inner = Closed(EndStream) => (localEos /\ remoteEos)

\* C4 (amended): the state is Closed(EndStream) only if a remote
\* end-of-stream event has occurred and either a local end-of-stream event
\* has occurred or the stream was reserved by the remote (reserve_remote
\* succeeded), in which case the local side never opens.
C4_EndStreamRemoteEndedLocalEndedOrReserved ==
    inner = Closed(EndStream) => (remoteEos /\ (localEos \/ reserved))

\* C4 witness: a reserved stream closed by recv_open(true) with no local
\* end-of-stream event.
C4_Witness ==
    /\ inner = Closed(EndStream)
    /\ last.op = "recv_open" /\ last.before = ReservedRemote
    /\ reserved /\ remoteEos /\ ~localEos

\* C5: recv_open returns Ok(true) exactly when the call moves the state into
\* the Open shape from another shape; every other successful call returns
\* Ok(false).
C5_TrueIffTransitionsToOpen ==
    (last.op = "recv_open" /\ last.ret.status = "Ok")
      => (last.ret = OkBool(TRUE)
            <=> (inner.tag = "Open" /\ last.before.tag # "Open"))

C7_SendOpenTable ==
    last.op = "send_open" =>
      LET b == last.before
          e == last.eos
      IN CASE b.tag = "Idle" ->
                /\ inner = IF e THEN HalfClosedLocal(AwaitingHeaders)
                                ELSE Open(Streaming, AwaitingHeaders)
                /\ last.ret = OkUnit
           [] b.tag = "Open" /\ b.local = AwaitingHeaders ->
                /\ inner = IF e THEN HalfClosedLocal(b.remote)
                                ELSE Open(Streaming, b.remote)
                /\ last.ret = OkUnit
           [] b.tag = "HalfClosedRemote" /\ b.peer = AwaitingHeaders ->
                /\ inner = IF e THEN Closed(EndStream)
                                ELSE HalfClosedRemote(Streaming)
                /\ last.ret = OkUnit
           [] OTHER ->
                last.ret = ErrUser("UnexpectedFrameType")

\* C7 witness: send_open(false) on Open(AwaitingHeaders, Streaming), where
\* the remote status has to be carried over.
C7_Witness ==
    /\ last.op = "send_open" /\ ~last.eos
    /\ last.before = Open(AwaitingHeaders, Streaming)
    /\ inner = Open(Streaming, Streaming)

\* C8: recv_reset(r) on a non-Closed state yields Closed(Proto(remote, r)),
\* which is not a local reset; recv_reset and recv_err on a Closed state leave
\* it as it was; so after two recv_reset calls in a row the cause is the one
\* the first call left.
C8_RecvResetIdempotent ==
    /\ (last.op = "recv_reset" /\ last.before.tag # "Closed")
         => /\ inner = Closed(CauseProto(Remote, last.reason))
            /\ ~is_local_reset(inner)
    /\ (last.op \in {"recv_reset", "recv_err"} /\ last.before.tag = "Closed")
         => inner = last.before
    /\ (prev.op = "recv_reset" /\ last.op = "recv_reset")
         => /\ inner = last.before
            /\ prev.before.tag # "Closed"
                 => inner = Closed(CauseProto(Remote, prev.reason))

\* C8 witness: two recv_reset calls in a row with different reason codes, the
\* first on a state that was not closed.
C8_Witness ==
    /\ prev.op = "recv_reset" /\ last.op = "recv_reset"
    /\ prev.before.tag # "Closed"
    /\ prev.reason = "CANCEL" /\ last.reason = "PROTOCOL_ERROR"

\* C9: from any Open state, send_close then recv_close, and recv_close then
\* send_close, both succeed and both end in Closed(EndStream), which is not a
\* reset.
C9_MutualHalfClose ==
    (/\ prev.before.tag = "Open"
     /\ \/ (prev.op = "send_close" /\ last.op = "recv_close")
        \/ (prev.op = "recv_close" /\ last.op = "send_close"))
      => /\ prev.ret = OkUnit
         /\ last.ret = OkUnit
         /\ inner = Closed(EndStream)
         /\ ~is_reset(inner)

\* C9 witness: recv_close then send_close from Open(Streaming, Streaming).
C9_Witness ==
    /\ prev.before = Open(Streaming, Streaming)
    /\ prev.op = "recv_close" /\ last.op = "send_close"
    /\ last.before = HalfClosedRemote(Streaming)

\* C10: ensure_recv_open() leaves the state alone and its result is fixed by
\* the shape: the reason of Closed(Proto(_, reason)) in a protocol error, a
\* protocol error for Closed(Canceled), a transport error for Closed(Io),
\* Ok(false) for Closed(EndStream) and HalfClosedRemote, Ok(true) otherwise.
C10_EnsureRecvOpenTable ==
    last.op = "ensure_recv_open" =>
      /\ inner = last.before
      /\ CASE inner.tag = "Closed" /\ inner.cause.kind = "Proto" ->
                /\ last.ret.status = "Err" /\ last.ret.val = "Proto"
                /\ last.ret.reason = inner.cause.reason
           [] inner.tag = "Closed" /\ inner.cause.kind = "Canceled" ->
                last.ret.status = "Err" /\ last.ret.val = "Proto"
           [] inner.tag = "Closed" /\ inner.cause.kind = "Io" ->
                last.ret.status = "Err" /\ last.ret.val = "Io"
           [] inner.tag = "Closed" /\ inner.cause.kind = "EndStream" ->
                last.ret = OkBool(FALSE)
           [] inner.tag = "HalfClosedRemote" ->
                last.ret = OkBool(FALSE)
           [] inner.tag \in {"Idle", "ReservedRemote", "Open", "HalfClosedLocal"} ->
                last.ret = OkBool(TRUE)

\* C10 witness: ensure_recv_open() asked of a stream the remote half-closed.
C10_Witness ==
    /\ last.op = "ensure_recv_open"
    /\ inner = HalfClosedRemote(Streaming)
    /\ last.ret = OkBool(FALSE)

\* C11: right after set_reset(r), from any state, is_local_reset() is true and
\* ensure_recv_open() fails with a protocol fault carrying r; right after
\* recv_err(fault) on a state that was not closed, ensure_recv_open() fails
\* with the same fault: a protocol fault with the same reason, or a transport
\* fault.
C11_ReasonRoundTrip ==
    /\ last.op = "set_reset"
         => /\ is_local_reset(inner)
            /\ ensure_recv_open(inner) = ErrProtoError(ErrProto(last.reason))
    /\ (prev.op = "set_reset" /\ last.op = "ensure_recv_open")
         => /\ last.ret.status = "Err" /\ last.ret.val = "Proto"
            /\ last.ret.reason = prev.reason
    /\ (last.op = "recv_err" /\ last.before.tag # "Closed")
         => ensure_recv_open(inner) = ErrProtoError(last.err)
    /\ (prev.op = "recv_err" /\ prev.before.tag # "Closed" /\ last.op = "ensure_recv_open")
         => /\ last.ret.status = "Err" /\ last.ret.val = prev.err.kind
            /\ prev.err.kind = "Proto" => last.ret.reason = prev.err.reason

\* C11 witness: set_reset(INTERNAL_ERROR) on an already closed stream, then
\* ensure_recv_open() giving that reason back.
C11_Witness ==
    /\ prev.op = "set_reset" /\ prev.before.tag = "Closed"
    /\ prev.reason = "INTERNAL_ERROR"
    /\ last.op = "ensure_recv_open" /\ last.ret.reason = "INTERNAL_ERROR"

\* C12: is_send_streaming() is true only if a send_open has succeeded earlier,
\* and is_recv_streaming() is true only if a recv_open has succeeded earlier.
C12_StreamingOnlyAfterHeaders ==
    /\ is_send_streaming(inner) => sentOpen
    /\ is_recv_streaming(inner) => recvdOpen

\* C12 witness: the remote's half is closed while the local side streams
\* after its send_open, and no recv_open has been seen.
C12_Witness ==
    /\ inner = HalfClosedRemote(Streaming)
    /\ sentOpen /\ ~recvdOpen

\* C13: the state becomes Closed(Canceled) only through a set_canceled call,
\* and that call is made on a state that is not Closed.
C13_CanceledOnlyFromNotClosed ==
    [][(is_canceled(inner') /\ inner' # inner)
         => (last'.op = "set_canceled" /\ ~is_closed(inner))]_vars

\* C14: send_close() takes Open(_, remote) to HalfClosedLocal(remote) and
\* HalfClosedRemote(_) to Closed(EndStream), whatever the local status; on
\* every other shape it panics instead of returning an error.
C14_SendCloseTable ==
    last.op = "send_close" =>
      LET b == last.before
      IN CASE b.tag = "Open" ->
                inner = HalfClosedLocal(b.remote) /\ last.ret = OkUnit
           [] b.tag = "HalfClosedRemote" ->
                inner = Closed(EndStream) /\ last.ret = OkUnit
           [] OTHER ->
                last.ret.status = "Panic" /\ panicked

\* C14 witness: send_close() on an Open state whose local side never sent
\* headers.
C14_Witness ==
    /\ last.op = "send_close"
    /\ last.before = Open(AwaitingHeaders, Streaming)
    /\ inner = HalfClosedLocal(Streaming)

\* C15: recv_close() takes Open(local, _) to HalfClosedRemote(local) and
\* HalfClosedLocal(_) to Closed(EndStream), and returns a protocol error on
\* Idle, ReservedRemote, HalfClosedRemote and Closed; once a remote
\* end-of-stream has been accepted the remote half stays closed, so another
\* one is rejected.
C15_RecvCloseTable ==
    /\ last.op = "recv_close" =>
         LET b == last.before
         IN CASE b.tag = "Open" ->
                   inner = HalfClosedRemote(b.local) /\ last.ret = OkUnit
              [] b.tag = "HalfClosedLocal" ->
                   inner = Closed(EndStream) /\ last.ret = OkUnit
              [] OTHER ->
                   last.ret = ErrConnection("PROTOCOL_ERROR")
    /\ remoteEos => is_recv_closed(inner)
    /\ (is_recv_closed(last.before)
        /\ (last.op = "recv_close" \/ (last.op = "recv_open" /\ last.eos)))
         => last.ret.status = "Err"

\* C15 witness: a recv_close() accepted on Open and a second one rejected.
C15_Witness ==
    /\ prev.op = "recv_close" /\ prev.before.tag = "Open" /\ prev.ret = OkUnit
    /\ last.op = "recv_close" /\ last.before.tag = "HalfClosedRemote"
    /\ last.ret.status = "Err"

C17_RejectedLeavesState ==
    (last.op \in {"send_open", "recv_open", "reserve_remote", "recv_close"}
     /\ last.ret.status = "Err")
      => inner = last.before

\* C17 witness: recv_close() rejected on a stream the remote has half-closed
\* while the local side streams.
C17_Witness ==
    /\ last.op = "recv_close" /\ last.ret.status = "Err"
    /\ last.before = HalfClosedRemote(Streaming)
    /\ inner = HalfClosedRemote(Streaming)

\* C18: recv_open(eos), for either eos, succeeds exactly when
\* is_recv_headers() was true just before the call, and after a successful
\* recv_open is_recv_headers() is false.
C18_RecvHeadersPredictsRecvOpen ==
    last.op = "recv_open" =>
      /\ last.ret.status = "Ok" <=> is_recv_headers(last.before)
      /\ last.ret.status = "Ok" => ~is_recv_headers(inner)

\* C18 witness: recv_open(false) accepted on HalfClosedLocal(AwaitingHeaders).
C18_Witness ==
    /\ last.op = "recv_open" /\ ~last.eos
    /\ last.before = HalfClosedLocal(AwaitingHeaders)
    /\ inner = HalfClosedLocal(Streaming)

\* The order Idle < ReservedRemote < Open < {HalfClosedLocal, HalfClosedRemote} < Closed.
Rank(s) ==
    CASE s.tag = "Idle" -> 0
      [] s.tag = "ReservedRemote" -> 1
      [] s.tag = "Open" -> 2
      [] s.tag \in {"HalfClosedLocal", "HalfClosedRemote"} -> 3
      [] s.tag = "Closed" -> 4

\* The status of the local (send) and of the remote (receive) direction, for
\* the shapes that carry one.
LocalStatus(s) ==
    IF s.tag = "Open" THEN s.local
    ELSE IF s.tag = "HalfClosedRemote" THEN s.peer ELSE "none"

RemoteStatus(s) ==
    IF s.tag = "Open" THEN s.remote
    ELSE IF s.tag = "HalfClosedLocal" THEN s.peer ELSE "none"

\* C19: no operation moves the state to a lower shape in the order
\* Idle < ReservedRemote < Open < {HalfClosedLocal, HalfClosedRemote} < Closed,
\* a half-closed state never becomes the other half-closed shape, no
\* direction status goes from Streaming back to AwaitingHeaders, and at most
\* five calls of send_open, recv_open, reserve_remote, recv_close and
\* send_close succeed.
C19_MonotoneProgress ==
    /\ [](progress <= 5)
    /\ [][/\ Rank(inner') >= Rank(inner)
          /\ (Rank(inner) = 3 /\ Rank(inner') = 3) => inner'.tag = inner.tag
          /\ ~(LocalStatus(inner) = Streaming /\ LocalStatus(inner') = AwaitingHeaders)
          /\ ~(RemoteStatus(inner) = Streaming /\ RemoteStatus(inner') = AwaitingHeaders)
          /\ (last'.op \in ProgressOps /\ last'.ret.status = "Ok" /\ last' # last)
               => inner' # inner]_vars

\* C19 witness: a stream closed by its fifth successful lifecycle call.
C19_Witness ==
    /\ progress = 5
    /\ inner = Closed(EndStream)
    /\ last.op \in ProgressOps /\ last.ret.status = "Ok"

\* C20: wherever is_send_streaming() is true, send_close() does not panic and
\* leaves HalfClosedLocal or Closed(EndStream) with is_send_streaming() false;
\* and once recv_reset, recv_err, set_reset or set_canceled has closed the
\* stream, send_close() panics.
C20_SendStreamingGuardsSendClose ==
    /\ (last.op = "send_close" /\ is_send_streaming(last.before))
         => /\ last.ret = OkUnit
            /\ inner.tag = "HalfClosedLocal" \/ inner = Closed(EndStream)
            /\ ~is_send_streaming(inner)
    /\ (last.op = "send_close" /\ is_reset(last.before))
         => last.ret = Panic /\ inner = last.before
    /\ (prev.op \in {"recv_reset", "recv_err", "set_reset", "set_canceled"}
        /\ last.op = "send_close")
         => last.ret = Panic

\* C20 witness: send_close() on a stream that set_canceled has just closed.
C20_Witness ==
    /\ prev.op = "set_canceled" /\ prev.ret = OkUnit
    /\ last.op = "send_close" /\ is_canceled(last.before)
    /\ last.ret = Panic

====
